---- MODULE Spec2Model ----
(***************************************************************************)
(* Model of scripts/enrich_with_ecdict.py: the TOEIC vocabulary table is   *)
(* parsed into uniform rows, the ECDICT table is indexed for the terms of  *)
(* the vocabulary, the two are joined and two files are written.           *)
(*                                                                         *)
(* A Python str is a sequence of one-character strings, so that strip,     *)
(* lower, the regular-expression substitutions and ",".join are computed   *)
(* character by character.  A CSV file is the sequence of the cell lists   *)
(* csv.reader yields for it ([] for an empty line); the ECDICT file is the *)
(* sequence of the dicts csv.DictReader yields for it.                     *)
(***************************************************************************)
EXTENDS Integers, Sequences, FiniteSets, TLC

VARIABLES
    srcExists,      \* SOURCE_CSV.exists()
    ecdictExists,   \* ECDICT_CSV.exists()
    srcLines,       \* what csv.reader yields for SOURCE_CSV
    ecdictEntries,  \* what csv.DictReader yields for ECDICT_CSV
    pc,             \* position of the run inside main()
    header,         \* main: header
    rows,           \* main: rows
    english_index,  \* main: english_index
    lookup_words,   \* main: lookup_words
    ecdict_map,     \* main: ecdict_map
    output_header,  \* main: output_header
    output_rows,    \* main: output_rows
    csvFile,        \* OUTPUT_CSV on disk
    jsonFile,       \* OUTPUT_JSON on disk
    text,           \* argument of normalize_translation (text specification)
    cleaned         \* its result

vars == <<srcExists, ecdictExists, srcLines, ecdictEntries, pc, header, rows,
          english_index, lookup_words, ecdict_map, output_header, output_rows,
          csvFile, jsonFile, text, cleaned>>

----------------------------------------------------------------------------
(* Bounds of the explored inputs. *)

MaxLines == 3

MaxEntries == 3

MaxTextLen == 6

----------------------------------------------------------------------------
(* Python str primitives. *)

Whitespace == {" ", "\t", "\n"}

UpperCase == <<"A","B","C","D","E","F","G","H","I","J","K","L","M",
               "N","O","P","Q","R","S","T","U","V","W","X","Y","Z">>

LowerCase == <<"a","b","c","d","e","f","g","h","i","j","k","l","m",
               "n","o","p","q","r","s","t","u","v","w","x","y","z">>

\* None, as csv.DictReader stores it for a field a short line does not have.
None == <<"None">>

Drop(s, k) == SubSeq(s, k + 1, Len(s))

\* number of whitespace characters s starts with
RECURSIVE LeadingSpace(_)
LeadingSpace(s) ==
    IF s = <<>> \/ Head(s) \notin Whitespace THEN 0
    ELSE 1 + LeadingSpace(Tail(s))

\* number of whitespace characters s ends with
RECURSIVE TrailingSpace(_)
TrailingSpace(s) ==
    IF s = <<>> \/ s[Len(s)] \notin Whitespace THEN 0
    ELSE 1 + TrailingSpace(SubSeq(s, 1, Len(s) - 1))

\* str.strip()
strip(s) ==
    LET l == LeadingSpace(s)
    IN  IF l = Len(s) THEN <<>>
        ELSE SubSeq(s, l + 1, Len(s) - TrailingSpace(s))

lowerChar(c) ==
    IF \E i \in 1..Len(UpperCase) : UpperCase[i] = c
    THEN LowerCase[CHOOSE i \in 1..Len(UpperCase) : UpperCase[i] = c]
    ELSE c

\* str.lower()
lower(s) == [i \in 1..Len(s) |-> lowerChar(s[i])]

\* re.sub(r"\s+", " ", s): every maximal whitespace run becomes one space
RECURSIVE SubSpaces(_)
SubSpaces(s) ==
    IF s = <<>> THEN <<>>
    ELSE IF Head(s) \in Whitespace
         THEN <<" ">> \o SubSpaces(Drop(s, LeadingSpace(s)))
         ELSE <<Head(s)>> \o SubSpaces(Tail(s))

normalize_term(term) == SubSpaces(lower(strip(term)))

\* re.sub(r"\s*\n\s*", "; ", s): scanning left to right, a match starts at a
\* whitespace run that holds a line break and, both stars being greedy,
\* takes the whole run
RECURSIVE SubLineBreaks(_)
SubLineBreaks(s) ==
    IF s = <<>> THEN <<>>
    ELSE LET k == LeadingSpace(s)
         IN  IF k > 0 /\ \E i \in 1..k : s[i] = "\n"
             THEN <<";", " ">> \o SubLineBreaks(Drop(s, k))
             ELSE <<Head(s)>> \o SubLineBreaks(Tail(s))

\* re.sub(r";\s*;", "; ", s): a match is a semicolon, a whitespace run and a
\* semicolon; the scan resumes right after the second semicolon
RECURSIVE SubSemicolons(_)
SubSemicolons(s) ==
    IF s = <<>> THEN <<>>
    ELSE LET k == LeadingSpace(Tail(s))
         IN  IF Head(s) = ";" /\ Len(s) >= k + 2 /\ s[k + 2] = ";"
             THEN <<";", " ">> \o SubSemicolons(Drop(s, k + 2))
             ELSE <<Head(s)>> \o SubSemicolons(Tail(s))

normalize_translation(t) == SubSemicolons(SubLineBreaks(strip(t)))

\* sep.join(parts)
RECURSIVE Join(_, _)
Join(parts, sep) ==
    IF parts = <<>> THEN <<>>
    ELSE IF Len(parts) = 1 THEN parts[1]
    ELSE parts[1] \o sep \o Join(Tail(parts), sep)

\* Python's s[lo:hi] for a list s, negative and out-of-range indices included
SliceIndex(n, i) == IF i < 0 THEN (IF i + n < 0 THEN 0 ELSE i + n)
                    ELSE IF i > n THEN n ELSE i

Slice(s, lo, hi) ==
    SubSeq(s, SliceIndex(Len(s), lo) + 1, SliceIndex(Len(s), hi))

\* Python's s[lo:]
SliceFrom(s, lo) == SubSeq(s, SliceIndex(Len(s), lo) + 1, Len(s))

----------------------------------------------------------------------------
(* parse_toeic_rows *)

\* raw_row and any(cell.strip() for cell in raw_row)
NonBlankRow(raw_row) ==
    raw_row # <<>> /\ \E j \in 1..Len(raw_row) : strip(raw_row[j]) # <<>>

\* first loop: the first non-blank line from position i on is the header;
\* next is the position the shared reader is left at
RECURSIVE FindHeader(_, _)
FindHeader(lines, i) ==
    IF i > Len(lines) THEN [header |-> <<>>, next |-> i]
    ELSE IF NonBlankRow(lines[i]) THEN [header |-> lines[i], next |-> i + 1]
    ELSE FindHeader(lines, i + 1)

\* RepairRow re-joining the overflow cells with ", " instead of ","
RepairRowSpaced(raw_row, header_length) ==
    IF Len(raw_row) < header_length
    THEN raw_row \o [j \in 1..(header_length - Len(raw_row)) |-> <<>>]
    ELSE IF Len(raw_row) > header_length
    THEN LET tail_length == header_length - 2
             chinese == Join(Slice(raw_row, 1, Len(raw_row) - tail_length),
                             <<",", " ">>)
         IN  <<raw_row[1], chinese>> \o SliceFrom(raw_row, -tail_length)
    ELSE raw_row

\* body of the second loop for one non-blank line
RepairRow(raw_row, header_length) ==
    IF Len(raw_row) < header_length
    THEN raw_row \o [j \in 1..(header_length - Len(raw_row)) |-> <<>>]
    ELSE IF Len(raw_row) > header_length
    THEN LET tail_length == header_length - 2
             chinese == Join(Slice(raw_row, 1, Len(raw_row) - tail_length),
                             <<",">>)
         IN  <<raw_row[1], chinese>> \o SliceFrom(raw_row, -tail_length)
    ELSE raw_row

\* ReadRows leaving the loop at the first blank line (break for continue)
RECURSIVE ReadRowsBreak(_, _, _)
ReadRowsBreak(lines, i, header_length) ==
    IF i > Len(lines) THEN <<>>
    ELSE IF ~NonBlankRow(lines[i]) THEN <<>>
    ELSE <<RepairRow(lines[i], header_length)>> \o
         ReadRowsBreak(lines, i + 1, header_length)

\* second loop: the lines the reader still has, from position i on
RECURSIVE ReadRows(_, _, _)
ReadRows(lines, i, header_length) ==
    IF i > Len(lines) THEN <<>>
    ELSE IF ~NonBlankRow(lines[i]) THEN ReadRows(lines, i + 1, header_length)
    ELSE <<RepairRow(lines[i], header_length)>> \o
         ReadRows(lines, i + 1, header_length)

parse_toeic_rows(lines) ==
    LET found == FindHeader(lines, 1)
        header_length == Len(found.header)
    IN  IF header_length = 0
        THEN [raised |-> TRUE, header |-> <<>>, rows |-> <<>>]
        ELSE [raised |-> FALSE, header |-> found.header,
              rows |-> ReadRows(lines, found.next, header_length)]

----------------------------------------------------------------------------
(* build_ecdict_map *)

Contains(list, x) == \E i \in 1..Len(list) : list[i] = x

NoEntries == [w \in {} |-> [zh |-> <<>>, pos |-> <<>>]]

\* IndexEntry testing the raw word, not the normalized one, against the filter
IndexEntryRawFilter(entry, lookup, acc) ==
    IF entry.word = None THEN [raised |-> TRUE, map |-> acc]
    ELSE LET word == normalize_term(entry.word)
    IN  IF word = <<>> \/ entry.word \notin lookup
        THEN [raised |-> FALSE, map |-> acc]
        ELSE IF entry.translation = None \/ entry.pos = None
        THEN [raised |-> TRUE, map |-> acc]
        ELSE LET translation == normalize_translation(entry.translation)
                 pos == strip(entry.pos)
                 existing == IF word \in DOMAIN acc THEN acc[word]
                             ELSE [zh |-> <<>>, pos |-> <<>>]
                 zh1 == IF translation # <<>> /\ ~Contains(existing.zh, translation)
                        THEN Append(existing.zh, translation)
                        ELSE existing.zh
                 pos1 == IF pos # <<>> /\ ~Contains(existing.pos, pos)
                         THEN Append(existing.pos, pos)
                         ELSE existing.pos
             IN  IF translation = <<>>
                 THEN [raised |-> FALSE, map |-> acc]
                 ELSE [raised |-> FALSE,
                       map |-> [w \in DOMAIN acc \cup {word} |->
                                  IF w = word THEN [zh |-> zh1, pos |-> pos1]
                                  ELSE acc[w]]]

\* IndexEntry without the early "if not translation: continue": a record with
\* an empty translation still contributes its pos
IndexEntryPosFirst(entry, lookup, acc) ==
    IF entry.word = None THEN [raised |-> TRUE, map |-> acc]
    ELSE LET word == normalize_term(entry.word)
    IN  IF word = <<>> \/ word \notin lookup
        THEN [raised |-> FALSE, map |-> acc]
        ELSE IF entry.translation = None \/ entry.pos = None
        THEN [raised |-> TRUE, map |-> acc]
        ELSE LET translation == normalize_translation(entry.translation)
                 pos == strip(entry.pos)
                 existing == IF word \in DOMAIN acc THEN acc[word]
                             ELSE [zh |-> <<>>, pos |-> <<>>]
                 zh1 == IF translation # <<>> /\ ~Contains(existing.zh, translation)
                        THEN Append(existing.zh, translation)
                        ELSE existing.zh
                 pos1 == IF pos # <<>> /\ ~Contains(existing.pos, pos)
                         THEN Append(existing.pos, pos)
                         ELSE existing.pos
             IN  [raised |-> FALSE,
                  map |-> [w \in DOMAIN acc \cup {word} |->
                             IF w = word THEN [zh |-> zh1, pos |-> pos1]
                             ELSE acc[w]]]

\* body of the loop for one entry; acc is the ecdict_map built so far.
\* A field that is None raises AttributeError where it is first used.
IndexEntry(entry, lookup, acc) ==
    IF entry.word = None THEN [raised |-> TRUE, map |-> acc]
    ELSE LET word == normalize_term(entry.word)
    IN  IF word = <<>> \/ word \notin lookup
        THEN [raised |-> FALSE, map |-> acc]
        ELSE IF entry.translation = None \/ entry.pos = None
        THEN [raised |-> TRUE, map |-> acc]
        ELSE LET translation == normalize_translation(entry.translation)
                 pos == strip(entry.pos)
                 existing == IF word \in DOMAIN acc THEN acc[word]
                             ELSE [zh |-> <<>>, pos |-> <<>>]
                 zh1 == IF translation # <<>> /\ ~Contains(existing.zh, translation)
                        THEN Append(existing.zh, translation)
                        ELSE existing.zh
                 pos1 == IF pos # <<>> /\ ~Contains(existing.pos, pos)
                         THEN Append(existing.pos, pos)
                         ELSE existing.pos
             IN  IF translation = <<>>
                 THEN [raised |-> FALSE, map |-> acc]
                 ELSE [raised |-> FALSE,
                       map |-> [w \in DOMAIN acc \cup {word} |->
                                  IF w = word THEN [zh |-> zh1, pos |-> pos1]
                                  ELSE acc[w]]]

\* the loop over the entries from position i on
RECURSIVE IndexEntries(_, _, _, _)
IndexEntries(entries, i, lookup, acc) ==
    IF i > Len(entries) THEN [raised |-> FALSE, map |-> acc]
    ELSE LET step == IndexEntry(entries[i], lookup, acc)
         IN  IF step.raised THEN step
             ELSE IndexEntries(entries, i + 1, lookup, step.map)

\* the dict comprehension of the return statement
JoinedMap(acc) ==
    [w \in DOMAIN acc |-> [zh  |-> Join(acc[w].zh, <<";", " ">>),
                           pos |-> Join(acc[w].pos, <<" ", "/", " ">>)]]

build_ecdict_map(entries, lookup) ==
    LET indexed == IndexEntries(entries, 1, lookup, NoEntries)
    IN  [raised |-> indexed.raised, map |-> JoinedMap(indexed.map)]

----------------------------------------------------------------------------
(* main *)

English == <<"E", "n", "g", "l", "i", "s", "h">>

HEADER_EXTENSION == <<<<"e", "c", "d", "i", "c", "t", "_", "z", "h">>, <<"e", "c", "d", "i", "c", "t", "_", "p", "o", "s">>>>

Untouched == [written |-> FALSE, content |-> <<>>]

\* header.index("English")
IndexOfEnglish(h) ==
    (CHOOSE i \in 1..Len(h) :
        h[i] = English /\ \A j \in 1..(i - 1) : h[j] # English) - 1

\* CheckInputs without the test of ECDICT_CSV
CheckInputsSourceOnly ==
    /\ pc = "start"
    /\ pc' = IF ~srcExists THEN "exit_missing_source" ELSE "parse"
    /\ UNCHANGED <<srcExists, ecdictExists, srcLines, ecdictEntries, header,
                   rows, english_index, lookup_words, ecdict_map,
                   output_header, output_rows, csvFile, jsonFile, text, cleaned>>

\* lines 89-92
CheckInputs ==
    /\ pc = "start"
    /\ pc' = IF ~srcExists THEN "exit_missing_source"
             ELSE IF ~ecdictExists THEN "exit_missing_ecdict"
             ELSE "parse"
    /\ UNCHANGED <<srcExists, ecdictExists, srcLines, ecdictEntries, header,
                   rows, english_index, lookup_words, ecdict_map,
                   output_header, output_rows, csvFile, jsonFile, text, cleaned>>

\* line 94
Parse ==
    /\ pc = "parse"
    /\ LET parsed == parse_toeic_rows(srcLines)
       IN  /\ pc' = IF parsed.raised THEN "error_empty_header"
                    ELSE "check_english"
           /\ header' = parsed.header
           /\ rows' = parsed.rows
    /\ UNCHANGED <<srcExists, ecdictExists, srcLines, ecdictEntries,
                   english_index, lookup_words, ecdict_map, output_header,
                   output_rows, csvFile, jsonFile, text, cleaned>>

\* lines 95-96
CheckEnglish ==
    /\ pc = "check_english"
    /\ pc' = IF ~Contains(header, English) THEN "exit_no_english" ELSE "index"
    /\ UNCHANGED <<srcExists, ecdictExists, srcLines, ecdictEntries, header,
                   rows, english_index, lookup_words, ecdict_map,
                   output_header, output_rows, csvFile, jsonFile, text, cleaned>>

\* lines 98-99
IndexLookup ==
    /\ pc = "index"
    /\ english_index' = IndexOfEnglish(header)
    /\ lookup_words' = {normalize_term(rows[k][english_index' + 1]) :
                            k \in 1..Len(rows)}
    /\ pc' = "build"
    /\ UNCHANGED <<srcExists, ecdictExists, srcLines, ecdictEntries, header,
                   rows, ecdict_map, output_header, output_rows, csvFile,
                   jsonFile, text, cleaned>>

\* line 101
BuildMap ==
    /\ pc = "build"
    /\ LET built == build_ecdict_map(ecdictEntries, lookup_words)
       IN  /\ pc' = IF built.raised THEN "error_attribute" ELSE "join"
           /\ ecdict_map' = IF built.raised THEN ecdict_map ELSE built.map
    /\ UNCHANGED <<srcExists, ecdictExists, srcLines, ecdictEntries, header,
                   rows, english_index, lookup_words, output_header,
                   output_rows, csvFile, jsonFile, text, cleaned>>

\* JoinRow falling back to the English cell where the map has no entry
JoinRowFallback(row, index, map) ==
    LET english == normalize_term(row[index + 1])
        ecdict_zh == IF english \in DOMAIN map THEN map[english].zh ELSE english
        ecdict_pos == IF english \in DOMAIN map THEN map[english].pos ELSE <<>>
    IN  row \o <<ecdict_zh, ecdict_pos>>

\* JoinRow looking the English cell up as it is written, not normalized
JoinRowRaw(row, index, map) ==
    LET english == row[index + 1]
        ecdict_zh == IF english \in DOMAIN map THEN map[english].zh ELSE <<>>
        ecdict_pos == IF english \in DOMAIN map THEN map[english].pos ELSE <<>>
    IN  row \o <<ecdict_zh, ecdict_pos>>

\* lines 107-111 for one row
JoinRow(row, index, map) ==
    LET english == normalize_term(row[index + 1])
        ecdict_zh == IF english \in DOMAIN map THEN map[english].zh ELSE <<>>
        ecdict_pos == IF english \in DOMAIN map THEN map[english].pos ELSE <<>>
    IN  row \o <<ecdict_zh, ecdict_pos>>

\* lines 103-111
JoinRows ==
    /\ pc = "join"
    /\ output_header' = header \o HEADER_EXTENSION
    /\ output_rows' = [k \in 1..Len(rows) |->
                          JoinRow(rows[k], english_index, ecdict_map)]
    /\ pc' = "truncate_csv"
    /\ UNCHANGED <<srcExists, ecdictExists, srcLines, ecdictEntries, header,
                   rows, english_index, lookup_words, ecdict_map, csvFile,
                   jsonFile, text, cleaned>>

\* line 113
TruncateCsv ==
    /\ pc = "truncate_csv"
    /\ csvFile' = [written |-> TRUE, content |-> <<>>]
    /\ pc' = "write_csv"
    /\ UNCHANGED <<srcExists, ecdictExists, srcLines, ecdictEntries, header,
                   rows, english_index, lookup_words, ecdict_map,
                   output_header, output_rows, jsonFile, text, cleaned>>

\* lines 114-117
WriteCsv ==
    /\ pc = "write_csv"
    /\ csvFile' = [written |-> TRUE, content |-> <<output_header>> \o output_rows]
    /\ pc' = "write_json"
    /\ UNCHANGED <<srcExists, ecdictExists, srcLines, ecdictEntries, header,
                   rows, english_index, lookup_words, ecdict_map,
                   output_header, output_rows, jsonFile, text, cleaned>>

\* lines 119-123
WriteJson ==
    /\ pc = "write_json"
    /\ jsonFile' = [written |-> TRUE, content |-> ecdict_map]
    /\ pc' = "print"
    /\ UNCHANGED <<srcExists, ecdictExists, srcLines, ecdictEntries, header,
                   rows, english_index, lookup_words, ecdict_map,
                   output_header, output_rows, csvFile, text, cleaned>>

\* lines 125-126
PrintWrote ==
    /\ pc = "print"
    /\ pc' = "done"
    /\ UNCHANGED <<srcExists, ecdictExists, srcLines, ecdictEntries, header,
                   rows, english_index, lookup_words, ecdict_map,
                   output_header, output_rows, csvFile, jsonFile, text, cleaned>>

----------------------------------------------------------------------------
(* The input files the runs are explored on. *)

EmptyLine == <<>>

SpaceLine == <<<<" ">>, <<>>>>

Header1 == <<<<"E", "n", "g", "l", "i", "s", "h">>>>

Header2 == <<<<"E", "n", "g", "l", "i", "s", "h">>, <<"C", "h", "i", "n", "e", "s", "e">>>>

Header3 == <<<<"L", "e", "v", "e", "l">>, <<"C", "h", "i", "n", "e", "s", "e">>, <<"E", "n", "g", "l", "i", "s", "h">>>>

Header4 == <<<<"E", "n", "g", "l", "i", "s", "h">>, <<"C", "h", "i", "n", "e", "s", "e">>, <<"L", "e", "v", "e", "l">>, <<"U", "n", "i", "t">>>>

Line1 == <<<<"R", "u", "n">>>>

Line2 == <<<<"r", "u", "n">>, <<"t", "o">>>>

Line3 == <<<<>>, <<"t", "o">>, <<" ", "R", "U", "N">>>>

Line5 == <<<<"r", "u", "n">>, <<"t", "o">>, <<"m", "o", "v", "e">>, <<"B", "a", "s", "i", "c">>, <<"3">>>>

LinePool == {EmptyLine, SpaceLine, Header1, Header2, Header3, Header4, Line1, Line2, Line3, Line5}

EntryGo ==
    [word |-> <<"r", "u", "n">>, translation |-> <<"g", "o">>, pos |-> <<"v">>]

EntryTrip ==
    [word |-> <<" ", "R", "U", "N">>, translation |-> <<"t", "r", "i", "p">>, pos |-> <<"n">>]

EntryGoAgain ==
    [word |-> <<"R", "u", "n">>, translation |-> <<"g", "o">>, pos |-> <<" ", "v", " ">>]

EntryBlank ==
    [word |-> <<"r", "u", "n">>, translation |-> <<" ">>, pos |-> <<"a", "d", "j">>]

EntryNoWord ==
    [word |-> <<>>, translation |-> <<"x">>, pos |-> <<"n">>]

EntryMove ==
    [word |-> <<"M", "o", "v", "e">>, translation |-> <<"a", "\n", " ", "b">>, pos |-> <<>>]

EntryShort ==
    [word |-> <<"r", "u", "n">>, translation |-> <<"g", "o">>, pos |-> None]

EntryWalk ==
    [word |-> <<"w", "a", "l", "k">>, translation |-> <<"g", "o">>, pos |-> <<"v">>]

EntryPool == {EntryGo, EntryTrip, EntryGoAgain, EntryBlank, EntryNoWord, EntryMove, EntryShort, EntryWalk}

SeqsUpTo(pool, n) == UNION {[1..k -> pool] : k \in 0..n}

\* vocabulary files the dictionary is varied against
SampleFiles == {<<Header4, Line5, Line1>>,
                <<Header3, Line3, SpaceLine, Line2, Line5>>,
                <<Header2, SpaceLine, Line5>>,
                <<Header1>>}

\* dictionaries the vocabulary file is varied against
SampleDicts == {<<>>,
                <<EntryGo, EntryTrip, EntryMove>>,
                <<EntryNoWord, EntryGoAgain>>}

TextAlphabet == {"a", "b", ";", " ", "\n"}

NotStarted ==
    /\ header = <<>>
    /\ rows = <<>>
    /\ english_index = 0
    /\ lookup_words = {}
    /\ ecdict_map = NoEntries
    /\ output_header = <<>>
    /\ output_rows = <<>>
    /\ csvFile = Untouched
    /\ jsonFile = Untouched

Init ==
    /\ pc = "start"
    /\ \/ /\ srcExists = TRUE /\ ecdictExists = TRUE
          /\ \/ /\ srcLines \in SeqsUpTo(LinePool, MaxLines)
                /\ ecdictEntries \in SampleDicts
             \/ /\ srcLines \in SampleFiles
                /\ ecdictEntries \in SeqsUpTo(EntryPool, MaxEntries)
       \/ /\ srcExists = FALSE /\ ecdictExists \in BOOLEAN
          /\ srcLines = <<>>
          /\ ecdictEntries \in (IF ecdictExists THEN SampleDicts ELSE {<<>>})
       \/ /\ srcExists = TRUE /\ ecdictExists = FALSE
          /\ srcLines \in SampleFiles
          /\ ecdictEntries = <<>>
    /\ NotStarted
    /\ text = <<>>
    /\ cleaned = <<>>

Next ==
    \/ CheckInputs
    \/ Parse
    \/ CheckEnglish
    \/ IndexLookup
    \/ BuildMap
    \/ JoinRows
    \/ TruncateCsv
    \/ WriteCsv
    \/ WriteJson
    \/ PrintWrote

Spec == Init /\ [][Next]_vars

----------------------------------------------------------------------------
(* normalize_translation applied to every short text. *)

InitText ==
    /\ pc = "text"
    /\ text \in SeqsUpTo(TextAlphabet, MaxTextLen)
    /\ cleaned = <<>>
    /\ srcExists = FALSE /\ ecdictExists = FALSE
    /\ srcLines = <<>> /\ ecdictEntries = <<>>
    /\ NotStarted

NormalizeText ==
    /\ pc = "text"
    /\ cleaned' = normalize_translation(text)
    /\ pc' = "text_done"
    /\ UNCHANGED <<srcExists, ecdictExists, srcLines, ecdictEntries, header,
                   rows, english_index, lookup_words, ecdict_map,
                   output_header, output_rows, csvFile, jsonFile, text>>

NextText == NormalizeText

SpecText == InitText /\ [][NextText]_vars

----------------------------------------------------------------------------
(* What the properties speak about, stated on the input files and on the   *)
(* written files rather than by the loops of the program.                  *)

AfterParse == {"check_english", "exit_no_english", "index", "build",
               "error_attribute", "join", "truncate_csv", "write_csv",
               "write_json", "print", "done"}

AfterBuild == {"join", "truncate_csv", "write_csv", "write_json", "print",
               "done"}

AfterJoin == {"truncate_csv", "write_csv", "write_json", "print", "done"}

\* position of the header line in the vocabulary source, 0 if it has none
HeaderPos ==
    IF \E i \in 1..Len(srcLines) : NonBlankRow(srcLines[i])
    THEN CHOOSE i \in 1..Len(srcLines) :
            NonBlankRow(srcLines[i]) /\ \A j \in 1..(i - 1) : ~NonBlankRow(srcLines[j])
    ELSE 0

SourceHeader == IF HeaderPos = 0 THEN <<>> ELSE srcLines[HeaderPos]

\* the non-blank lines that follow the header line, in order
DataLines ==
    IF HeaderPos = 0 THEN <<>>
    ELSE SelectSeq(SubSeq(srcLines, HeaderPos + 1, Len(srcLines)), NonBlankRow)

\* the data rows of the extended CSV
Emitted == Tail(csvFile.content)

\* the row without the two appended cells
Unextended(row) == SubSeq(row, 1, Len(row) - 2)

\* normalized English cell of a row of the extended CSV
TermOf(row) == normalize_term(row[IndexOfEnglish(csvFile.content[1]) + 1])

JsonMap == jsonFile.content

\* the dictionary records whose normalized word is term
WordIs(entry, term) == entry.word # None /\ normalize_term(entry.word) = term

HasTranslation(entry) ==
    entry.translation # None /\ normalize_translation(entry.translation) # <<>>

Min(a, b) == IF a < b THEN a ELSE b

\* the elements of list, each once, in the order of their first occurrence
FirstSeen(list) ==
    LET firsts == {i \in 1..Len(list) : \A j \in 1..(i - 1) : list[j] # list[i]}
    IN  [k \in 1..Cardinality(firsts) |->
            list[CHOOSE i \in firsts : Cardinality({j \in firsts : j < i}) = k - 1]]

NonEmpty(str) == str # <<>>

\* the value the aggregation rule gives a term
Aggregated(term) ==
    LET Contributes(entry) == WordIs(entry, term) /\ HasTranslation(entry)
        records == SelectSeq(ecdictEntries, Contributes)
        translations == [i \in 1..Len(records) |->
                            normalize_translation(records[i].translation)]
        tags == [i \in 1..Len(records) |-> strip(records[i].pos)]
    IN  [zh  |-> Join(FirstSeen(translations), <<";", " ">>),
         pos |-> Join(FirstSeen(SelectSeq(tags, NonEmpty)), <<" ", "/", " ">>)]

\* the value main reads for a term: the entry, or empty strings without one
ValueOf(map, term) ==
    IF term \in DOMAIN map THEN map[term] ELSE [zh |-> <<>>, pos |-> <<>>]

----------------------------------------------------------------------------
(* C1 *)

\* C1: every row parse_toeic_rows produces has exactly len(header) cells and
\* every row main emits has exactly len(header) + 2 cells, whatever the
\* length of the header and of the data line.
C1_WidthInvariant ==
    /\ pc \in AfterParse =>
          \A k \in 1..Len(rows) : Len(rows[k]) = Len(header)
    /\ pc \in AfterJoin =>
          \A k \in 1..Len(output_rows) : Len(output_rows[k]) = Len(header) + 2

----------------------------------------------------------------------------
(* C2 *)

\* C2 as stated: in a completed run, every normalized English term of an
\* emitted row that is the normalized word of a dictionary record with a
\* non-empty translation is a key of the written JSON map.
C2_JoinCompleteness ==
    pc = "done" =>
        \A k \in 1..Len(Emitted) : \A i \in 1..Len(ecdictEntries) :
            WordIs(ecdictEntries[i], TermOf(Emitted[k]))
                /\ HasTranslation(ecdictEntries[i])
            => TermOf(Emitted[k]) \in DOMAIN JsonMap

\* C2 amended: the same for every non-empty normalized English term; the
\* translation is non-empty after normalize_translation.
C2_JoinCompletenessNonEmptyTerm ==
    pc = "done" =>
        \A k \in 1..Len(Emitted) : \A i \in 1..Len(ecdictEntries) :
            TermOf(Emitted[k]) # <<>>
                /\ WordIs(ecdictEntries[i], TermOf(Emitted[k]))
                /\ HasTranslation(ecdictEntries[i])
            => TermOf(Emitted[k]) \in DOMAIN JsonMap

\* C2 witness: a completed run with a non-empty term of the vocabulary that a
\* dictionary record with a translation spells differently (case, spaces).
C2_Witness ==
    /\ pc = "done"
    /\ \E k \in 1..Len(Emitted) : \E i \in 1..Len(ecdictEntries) :
          /\ TermOf(Emitted[k]) # <<>>
          /\ WordIs(ecdictEntries[i], TermOf(Emitted[k]))
          /\ HasTranslation(ecdictEntries[i])
          /\ ecdictEntries[i].word # TermOf(Emitted[k])
          /\ TermOf(Emitted[k]) \in DOMAIN JsonMap

----------------------------------------------------------------------------
(* C3 *)

\* C3: in a completed run, an emitted row whose normalized English term is
\* the normalized word of no dictionary record has ecdict_zh = "" and
\* ecdict_pos = "", and its term is not a key of the written JSON map.
C3_JoinExclusivity ==
    pc = "done" =>
        \A k \in 1..Len(Emitted) :
            (\A i \in 1..Len(ecdictEntries) :
                ~WordIs(ecdictEntries[i], TermOf(Emitted[k])))
            => /\ Emitted[k][Len(Emitted[k]) - 1] = <<>>
               /\ Emitted[k][Len(Emitted[k])] = <<>>
               /\ TermOf(Emitted[k]) \notin DOMAIN JsonMap

\* C3 witness: a completed run whose dictionary matched one row and has no
\* record for the term of another row.
C3_Witness ==
    /\ pc = "done"
    /\ DOMAIN JsonMap # {}
    /\ \E k \in 1..Len(Emitted) :
          /\ TermOf(Emitted[k]) # <<>>
          /\ \A i \in 1..Len(ecdictEntries) :
                ~WordIs(ecdictEntries[i], TermOf(Emitted[k]))

----------------------------------------------------------------------------
(* C4 *)

BadInput ==
    \/ ~srcExists
    \/ ~ecdictExists
    \/ SourceHeader = <<>>
    \/ ~Contains(SourceHeader, English)

\* C4: with an input file absent, no non-blank header line or no "English"
\* column, the run never reaches a write and both output files stay
\* untouched; whenever an output file has been written, both inputs existed
\* and the header was non-empty and contained "English".
C4_FatalErrorsLeaveNoOutput ==
    /\ BadInput => /\ csvFile = Untouched
                   /\ jsonFile = Untouched
                   /\ pc \notin AfterJoin
    /\ (csvFile.written \/ jsonFile.written) =>
          /\ srcExists
          /\ ecdictExists
          /\ header # <<>>
          /\ Contains(header, English)

\* C4 witness: a run that has stopped on a fatal input error.
C4_Witness ==
    /\ pc \in {"exit_missing_source", "exit_missing_ecdict",
               "error_empty_header", "exit_no_english"}
    /\ BadInput
    /\ csvFile = Untouched
    /\ jsonFile = Untouched

----------------------------------------------------------------------------
(* C5 *)

PlainFragment(str) ==
    str # <<>> /\ \A i \in 1..Len(str) : str[i] \notin Whitespace \cup {";"}

\* C5: for non-empty fragments a and b without whitespace or semicolons,
\* normalize_translation(a + "; ; " + b) = a + "; " + b.
C5_TranslationCleanup ==
    pc = "text_done" =>
        \A n \in 1..Len(text) :
            LET a == SubSeq(text, 1, n)
                b == SubSeq(text, n + 5, Len(text))
            IN  PlainFragment(a) /\ PlainFragment(b)
                    /\ text = a \o <<";", " ", ";", " ">> \o b
                => cleaned = a \o <<";", " ">> \o b

----------------------------------------------------------------------------
(* C6 *)

\* C6 as stated: after build_ecdict_map, the value of every term of the
\* lookup filter is the aggregation of the records whose normalized word is
\* the term and whose normalized translation is non-empty: distinct
\* translations joined with "; ", distinct non-empty trimmed pos tags joined
\* with " / ", both in first-seen order.
C6_Aggregation ==
    pc \in AfterBuild =>
        \A term \in lookup_words : ValueOf(ecdict_map, term) = Aggregated(term)

\* C6 amended: the same for every non-empty term of the lookup filter; a term
\* is a key exactly when it is non-empty and has a contributing record.
C6_AggregationNonEmptyTerm ==
    pc \in AfterBuild =>
        /\ \A term \in lookup_words \ {<<>>} :
              /\ ValueOf(ecdict_map, term) = Aggregated(term)
              /\ term \in DOMAIN ecdict_map <=> Aggregated(term).zh # <<>>
        /\ DOMAIN ecdict_map \subseteq lookup_words \ {<<>>}

\* C6 witness: a term aggregated from two distinct translations and two
\* distinct pos tags.
C6_Witness ==
    /\ pc \in AfterBuild
    /\ \E term \in DOMAIN ecdict_map :
          /\ ecdict_map[term].zh = <<"g", "o", ";", " ", "t", "r", "i", "p">>
          /\ ecdict_map[term].pos = <<"v", " ", "/", " ", "n">>

----------------------------------------------------------------------------
(* C7 *)

\* the row the repair rule of the specification gives an overflowing line
\* (tail_length >= 0): cell 0, the cells 1 .. n - tail_length - 1 joined with
\* commas, then the last tail_length cells
RuleRow(line, header_length) ==
    LET tail_length == header_length - 2
        n == Len(line)
    IN  <<line[1], Join(SubSeq(line, 2, n - tail_length), <<",">>)>>
        \o SubSeq(line, n - tail_length + 1, n)

\* C7: for every data line with more cells than the header the produced row
\* is [cell 0, cells 1 .. len - tail_length - 1 joined with commas] followed
\* by exactly the last tail_length = header_length - 2 cells of the line.
\* (Stated for headers of two or more columns: with one column tail_length
\* is negative and "the last tail_length cells" names nothing.)
C7_OverflowRepairRule ==
    pc \in AfterParse =>
        /\ Len(rows) = Len(DataLines)
        /\ \A k \in 1..Len(DataLines) :
              Len(DataLines[k]) > Len(header) /\ Len(header) >= 2
              => rows[k] = RuleRow(DataLines[k], Len(header))

----------------------------------------------------------------------------
(* C8 *)

\* C8 as stated: under the header English,Chinese,Level,Unit the line
\* run,to,move,Basic,3 becomes [run, "to, move", Basic, 3]; two overflow cells
\* a and b are recombined into a + ", " + b.
C8_OverflowExample ==
    pc \in AfterParse =>
        \A k \in 1..Len(DataLines) :
            /\ header = Header4 /\ DataLines[k] = Line5
               => rows[k] = <<<<"r", "u", "n">>, <<"t", "o", ",", " ", "m", "o", "v", "e">>, <<"B", "a", "s", "i", "c">>, <<"3">>>>
            /\ Len(header) >= 2 /\ Len(DataLines[k]) = Len(header) + 1
               => rows[k][2] = DataLines[k][2] \o <<",", " ">> \o DataLines[k][3]

\* C8 amended: the line becomes [run, "to,move", Basic, 3]; two overflow cells
\* a and b (header of two or more columns) are recombined into a + "," + b.
C8_OverflowExampleComma ==
    pc \in AfterParse =>
        \A k \in 1..Len(DataLines) :
            /\ header = Header4 /\ DataLines[k] = Line5
               => rows[k] = <<<<"r", "u", "n">>, <<"t", "o", ",", "m", "o", "v", "e">>, <<"B", "a", "s", "i", "c">>, <<"3">>>>
            /\ Len(header) >= 2 /\ Len(DataLines[k]) = Len(header) + 1
               => rows[k][2] = DataLines[k][2] \o <<",">> \o DataLines[k][3]

\* C8 witness: the five-cell line parsed under the four-column header.
C8_Witness ==
    /\ pc \in AfterParse
    /\ header = Header4
    /\ \E k \in 1..Len(rows) : DataLines[k] = Line5 /\ Len(rows[k]) = 4

----------------------------------------------------------------------------
(* C9 *)

\* row comes from line: a line that does not overflow is kept and padded with
\* empty cells, an overflowing line keeps its first cell and has its next
\* cells joined with commas in the second cell
ComesFrom(row, line, header_length) ==
    IF Len(line) <= header_length
    THEN /\ Len(row) = header_length
         /\ SubSeq(row, 1, Len(line)) = line
         /\ \A j \in (Len(line) + 1)..header_length : row[j] = <<>>
    ELSE /\ row[1] = line[1]
         /\ row[2] = Join(SubSeq(line, 2,
                            Min(Len(line), Len(line) - header_length + 2)),
                          <<",">>)

\* C9: the k-th row of parse_toeic_rows and the k-th data row of the extended
\* CSV come from the k-th non-blank line after the header line; there are as
\* many rows as such lines, and no row is blank.
C9_RowOrder ==
    /\ pc \in AfterParse =>
          /\ Len(rows) = Len(DataLines)
          /\ \A k \in 1..Len(rows) :
                /\ ComesFrom(rows[k], DataLines[k], Len(header))
                /\ NonBlankRow(rows[k])
    /\ pc \in {"write_json", "print", "done"} =>
          /\ Len(Emitted) = Len(DataLines)
          /\ \A k \in 1..Len(Emitted) :
                /\ ComesFrom(Unextended(Emitted[k]), DataLines[k],
                             Len(SourceHeader))
                /\ NonBlankRow(Unextended(Emitted[k]))

\* C9 witness: a written CSV with two data rows whose source has a blank line
\* after the header line.
C9_Witness ==
    /\ pc = "done"
    /\ Len(Emitted) >= 2
    /\ \E i \in (HeaderPos + 1)..Len(srcLines) : ~NonBlankRow(srcLines[i])

----------------------------------------------------------------------------
(* C10 *)

\* C10: in a completed run the two appended cells of every emitted row are
\* the zh and pos of the JSON entry of the row's normalized English cell, or
\* both "" without such an entry; every key has a non-empty zh, so ecdict_zh
\* is non-empty exactly for the rows whose term is a key; every key is the
\* term of some emitted row.
C10_CsvJsonAgreement ==
    pc = "done" =>
        /\ \A k \in 1..Len(Emitted) :
              LET row == Emitted[k]
              IN  /\ row[Len(row) - 1] = ValueOf(JsonMap, TermOf(row)).zh
                  /\ row[Len(row)] = ValueOf(JsonMap, TermOf(row)).pos
                  /\ row[Len(row) - 1] # <<>> <=> TermOf(row) \in DOMAIN JsonMap
        /\ \A w \in DOMAIN JsonMap :
              /\ JsonMap[w].zh # <<>>
              /\ \E k \in 1..Len(Emitted) : TermOf(Emitted[k]) = w

\* C10 witness: a completed run with a matched row and an unmatched row.
C10_Witness ==
    /\ pc = "done"
    /\ \E k \in 1..Len(Emitted) : TermOf(Emitted[k]) \in DOMAIN JsonMap
    /\ \E k \in 1..Len(Emitted) : TermOf(Emitted[k]) \notin DOMAIN JsonMap

====
